---- MODULE Spec2Model ----
(***************************************************************************)
(* A model of magnit_parser.py: the city resolver, the category locator,   *)
(* the paginated product fetcher, the row transformer and main, which      *)
(* chains them and writes the CSV file.                                    *)
(*                                                                         *)
(* Representation of Python values:                                        *)
(*   - a str is a sequence of Unicode code points (108 is "l");            *)
(*   - Optional[X] is <<>> for None and <<x>> for a value x;               *)
(*   - a JSON value of unknown type is a record [t |-> tag, v |-> Int]     *)
(*     with tag in "missing", "null", "int", "bool", "float", "str".       *)
(***************************************************************************)
EXTENDS Integers, Sequences, FiniteSets, TLC

VARIABLES
    pc,            \* position of the running function
    city,          \* args.city: Optional[str]
    fias_id,       \* args.fias_id: Optional[str]
    limit,         \* args.limit
    fias,          \* resolve_city: local fias (Optional[str])
    cityPosts,     \* bodies POSTed to /market/v2/city/info, in order
    city_id,       \* resolve_city result
    city_name,     \* resolve_city result
    err,           \* the exception that ended the run ("" if none)
    tree,          \* the fetched category tree, data["items"]
    category_id,   \* get_coffee_category_id result: Optional[int]
    offset,        \* iter_coffee_products_in_stock: local offset
    search_token,  \* iter_coffee_products_in_stock: local search_token
    server,        \* upstream catalogue: non-empty pages still to come, or Endless
    reqs,          \* search requests sent, in order: [offset, token]
    resps,         \* search responses received, in order: [items, token]
    yielded,       \* items yielded by the generator, in order
    rows,          \* main: the list rows
    file,          \* the output file: Optional[list of rows]
    item,          \* to_row: argument it
    row            \* to_row: result, Optional[ProductRow]

vars == <<pc, city, fias_id, limit, fias, cityPosts, city_id, city_name, err,
          tree, category_id, offset, search_token, server, reqs, resps,
          yielded, rows, file, item, row>>

cityVars  == <<city, fias_id, fias, cityPosts, city_id, city_name>>
catVars   == <<tree, category_id>>
fetchVars == <<limit, offset, search_token, server, reqs, resps, yielded, rows>>
rowVars   == <<item, row>>

(***************************************************************************)
(* Bounds of the model.                                                    *)
(***************************************************************************)
MaxPad == 1        \* spaces put before and after an input string
MaxRequests == 3   \* search requests per run in the bounded specifications
MaxPrice == 2      \* prices and old prices include 99..99 + MaxPrice
MaxNodes == 3      \* nodes of the generated category trees
MaxPages == 2      \* non-empty pages of a catalogue that runs out

(***************************************************************************)
(* Python values.                                                          *)
(***************************************************************************)
None == <<>>
Some(x) == <<x>>
Val(o) == o[1]

J(tag, val) == [t |-> tag, v |-> val]
JMissing == J("missing", 0)
JNull == J("null", 0)
JInt(n) == J("int", n)
JBool(b) == J("bool", IF b THEN 1 ELSE 0)
JFloat(n) == J("float", n)      \* the float n + 0.5
JStr(n) == J("str", n)          \* the string of the digits of n

\* isinstance(x, int): bool is a subclass of int
IsInstanceInt(x) == x.t \in {"int", "bool"}

\* bool(x) for a JSON value
Truthy(x) ==
    CASE x.t \in {"missing", "null"} -> FALSE
      [] x.t \in {"int", "bool"} -> x.v # 0
      [] x.t = "float" -> TRUE
      [] OTHER -> TRUE

(***************************************************************************)
(* Strings.                                                                *)
(***************************************************************************)
\* str.lower() on the Latin and Cyrillic capitals
LowerCh(c) ==
    IF c >= 65 /\ c <= 90 THEN c + 32
    ELSE IF c >= 1040 /\ c <= 1071 THEN c + 32
    ELSE IF c = 1025 THEN 1105
    ELSE c

Lower(s) == [i \in 1..Len(s) |-> LowerCh(s[i])]

IsSpaceCh(c) == c \in {9, 10, 11, 12, 13, 32}

RECURSIVE LStrip(_)
LStrip(s) == IF s # <<>> /\ IsSpaceCh(Head(s)) THEN LStrip(Tail(s)) ELSE s

RECURSIVE RStrip(_)
RStrip(s) ==
    IF s # <<>> /\ IsSpaceCh(s[Len(s)]) THEN RStrip(SubSeq(s, 1, Len(s) - 1)) ELSE s

\* str.strip()
Strip(s) == RStrip(LStrip(s))

\* k in s
Contains(s, k) ==
    \E i \in 0..(Len(s) - Len(k)) : SubSeq(s, i + 1, i + Len(k)) = k

(***************************************************************************)
(* City resolver.                                                          *)
(***************************************************************************)
\* "c2deb16a-0330-4f05-821f-1d09c93331e6"
FIAS_SPB ==
    <<99, 50, 100, 101, 98, 49, 54, 97, 45, 48, 51, 51, 48, 45,
      52, 102, 48, 53, 45, 56, 50, 49, 102, 45, 49, 100, 48, 57, 99, 57, 51, 51, 51, 49, 101, 54>>

\* "0c5b2444-70a0-4932-980c-b4dc0d3f02b5"
FIAS_MOSCOW ==
    <<48, 99, 53, 98, 50, 52, 52, 52, 45, 55, 48, 97, 48, 45,
      52, 57, 51, 50, 45, 57, 56, 48, 99, 45, 98, 52, 100, 99, 48, 100, 51, 102, 48, 50, 98, 53>>

\* The table in declaration order (a dict iterates in insertion order); the
\* Cyrillic keys are given by their transliteration in the comments.
KNOWN_CITIES == <<
    [k |-> <<1084, 1086, 1089, 1082, 1074, 1072>>,
     v |-> FIAS_MOSCOW],   \* "moskva"
    [k |-> <<109, 111, 115, 99, 111, 119>>,
     v |-> FIAS_MOSCOW],   \* "moscow"
    [k |-> <<109, 115, 107>>,
     v |-> FIAS_MOSCOW],   \* "msk"
    [k |-> <<1089, 1072, 1085, 1082, 1090, 45, 1087, 1077, 1090, 1077, 1088, 1073, 1091, 1088, 1075>>,
     v |-> FIAS_SPB],   \* "sankt-peterburg"
    [k |-> <<1089, 1072, 1085, 1082, 1090, 32, 1087, 1077, 1090, 1077, 1088, 1073, 1091, 1088, 1075>>,
     v |-> FIAS_SPB],   \* "sankt peterburg"
    [k |-> <<1089, 1087, 1073>>,
     v |-> FIAS_SPB],   \* "spb (Cyrillic)"
    [k |-> <<1087, 1080, 1090, 1077, 1088>>,
     v |-> FIAS_SPB],   \* "piter"
    [k |-> <<115, 97, 105, 110, 116, 32, 112, 101, 116, 101, 114, 115, 98, 117, 114, 103>>,
     v |-> FIAS_SPB],   \* "saint petersburg"
    [k |-> <<115, 116, 32, 112, 101, 116, 101, 114, 115, 98, 117, 114, 103>>,
     v |-> FIAS_SPB],   \* "st petersburg"
    [k |-> <<115, 112, 98>>,
     v |-> FIAS_SPB]    \* "spb"
>>

\* bool(s) for an Optional[str]
StrTruthy(o) == o # None /\ Val(o) # <<>>

\* key = city.strip().lower()
NormalizeCity(c) == Lower(Strip(c))

\* KNOWN_CITIES.get(key)
DictGet(key) ==
    IF \E i \in 1..Len(KNOWN_CITIES) : KNOWN_CITIES[i].k = key
    THEN Some(KNOWN_CITIES[CHOOSE i \in 1..Len(KNOWN_CITIES) : KNOWN_CITIES[i].k = key].v)
    ELSE None

\* mutant: the last key found wins
SubstringMatch_Last(key) ==
    LET hits == {i \in 1..Len(KNOWN_CITIES) : Contains(key, KNOWN_CITIES[i].k)}
    IN IF hits = {} THEN None
       ELSE Some(KNOWN_CITIES[CHOOSE i \in hits : \A j \in hits : i >= j].v)

\* for k, v in KNOWN_CITIES.items(): if k in key: fias = v; break
SubstringMatch(key) ==
    LET hits == {i \in 1..Len(KNOWN_CITIES) : Contains(key, KNOWN_CITIES[i].k)}
    IN IF hits = {} THEN None
       ELSE Some(KNOWN_CITIES[CHOOSE i \in hits : \A j \in hits : i <= j].v)

\* the elif city: branch
LookupCity(c) ==
    LET key == NormalizeCity(c)
        exact == DictGet(key)
    IN IF exact # None THEN exact ELSE SubstringMatch(key)

\* mutant: the identifier is not stripped
ExplicitFias_Verbatim(fid) == fid

\* the if fias_id: branch
ExplicitFias(fid) == Strip(fid)

\* the value of fias when the test "if not fias" is reached
ResolveFias(c, fid) ==
    IF StrTruthy(fid) THEN Some(ExplicitFias(Val(fid)))
    ELSE IF StrTruthy(c) THEN LookupCity(Val(c))
    ELSE None

\* what /market/v2/city/info may answer: an HTTP error, or a JSON object whose
\* cityId and name are missing, blank or present
CityResponses ==
    [ok : BOOLEAN,
     cityId : {None, Some(<<32>>), Some(<<32, 55, 56>>)},
     name : {None, Some(<<1052, 83, 75, 32>>)}]

\* str(data.get(field, "")).strip()
StrField(o) == IF o = None THEN <<>> ELSE Strip(Val(o))

\* resolve_city(session, city, fias_id), called by main
ResolveCity ==
    /\ pc = "resolve_city"
    /\ LET f == ResolveFias(city, fias_id) IN
       IF ~StrTruthy(f)
       THEN /\ fias' = f
            /\ err' = "config"
            /\ pc' = "failed"
            /\ UNCHANGED <<cityPosts, city_id, city_name>>
       ELSE /\ fias' = f
            /\ cityPosts' = Append(cityPosts, Val(f))
            /\ \E r \in CityResponses :
                 LET cid == StrField(r.cityId)
                     nm == IF StrField(r.name) # <<>> THEN StrField(r.name)
                           ELSE IF StrTruthy(city) THEN Val(city) ELSE <<>>
                 IN IF ~r.ok
                    THEN /\ err' = "http"
                         /\ pc' = "failed"
                         /\ UNCHANGED <<city_id, city_name>>
                    ELSE IF cid = <<>>
                    THEN /\ err' = "resolution"
                         /\ pc' = "failed"
                         /\ UNCHANGED <<city_id, city_name>>
                    ELSE /\ city_id' = cid
                         /\ city_name' = nm
                         /\ err' = err
                         /\ pc' = "get_category"
    /\ UNCHANGED <<city, fias_id, catVars, fetchVars, file, rowVars>>

(***************************************************************************)
(* Category locator.                                                       *)
(*                                                                         *)
(* A node of the category tree is [t, name, id, ch, kids]:                 *)
(*   t = "dict":   name is nodes.get("name") (None if absent), id is the   *)
(*                 JSON value under "id", ch tells whether "children" is   *)
(*                 "missing", "null" or a "list", kids is that list;       *)
(*   t = "list":   kids are the elements;                                  *)
(*   t = "scalar": a string, a number or null.                             *)
(***************************************************************************)
\* "Кофе"
TARGET == <<1050, 1086, 1092, 1077>>

\* "Чай"
OTHER_NAME == <<1063, 1072, 1081>>

DictNode(nm, i, c, ks) == [t |-> "dict", name |-> nm, id |-> i, ch |-> c, kids |-> ks]
ListNode(ks) == [t |-> "list", name |-> None, id |-> JMissing, ch |-> "list", kids |-> ks]
ScalarNode == [t |-> "scalar", name |-> None, id |-> JMissing, ch |-> "missing", kids |-> <<>>]

\* outcomes of walk: an int, None, or an exception
Found(n) == [k |-> "found", v |-> n, e |-> ""]
NotFound == [k |-> "none", v |-> 0, e |-> ""]
Raised(x) == [k |-> "raise", v |-> 0, e |-> x]

\* int(nodes["id"])
IntOfId(i) ==
    CASE i.t = "missing" -> Raised("KeyError")
      [] i.t = "null" -> Raised("TypeError")
      [] OTHER -> Found(i.v)

\* nodes.get("children", []) or []
ChildrenOf(n) == IF n.ch = "list" THEN n.kids ELSE <<>>

\* if nodes.get("name") == "Кофе"
NameMatches(n) == n.name = Some(TARGET)

RECURSIVE walk(_)
RECURSIVE walkEach(_)
\* def walk(nodes)
walk(n) ==
    IF n.t = "dict"
    THEN IF NameMatches(n) THEN IntOfId(n.id) ELSE walkEach(ChildrenOf(n))
    ELSE IF n.t = "list" THEN walkEach(n.kids)
    ELSE NotFound

\* for ch in ...: found = walk(ch); if found is not None: return found
walkEach(s) ==
    IF s = <<>> THEN NotFound
    ELSE LET found == walk(Head(s))
         IN IF found.k # "none" THEN found ELSE walkEach(Tail(s))

\* walk(data.get("items", [])) for data["items"] absent (None) or a list
WalkItems(t) == IF t = None THEN NotFound ELSE walk(ListNode(Val(t)))

\* get_coffee_category_id(session), called by main
GetCategory ==
    /\ pc = "get_category"
    /\ \E ok \in BOOLEAN :
         LET cid == WalkItems(tree)
         IN IF ~ok
            THEN /\ err' = "http"
                 /\ pc' = "failed"
                 /\ UNCHANGED category_id
            ELSE IF cid.k = "raise"
            THEN /\ err' = cid.e
                 /\ pc' = "failed"
                 /\ UNCHANGED category_id
            ELSE IF cid.k = "none"
            THEN /\ err' = "notfound"
                 /\ pc' = "failed"
                 /\ UNCHANGED category_id
            ELSE /\ category_id' = Some(cid.v)
                 /\ err' = err
                 /\ pc' = "fetch"
    /\ UNCHANGED <<cityVars, tree, fetchVars, file, rowVars>>

\* The category trees of the model: every forest of at most MaxNodes nodes.
LeafNodes ==
    { DictNode(Some(TARGET), JInt(1), "missing", <<>>),
      DictNode(Some(TARGET), JInt(2), "null", <<>>),
      DictNode(Some(TARGET), JMissing, "missing", <<>>),
      DictNode(Some(OTHER_NAME), JInt(3), "missing", <<>>),
      DictNode(None, JInt(4), "null", <<>>),
      ListNode(<<>>),
      ScalarNode }

Wrap(f) ==
    { ListNode(f),
      DictNode(Some(OTHER_NAME), JInt(5), "list", f),
      DictNode(Some(TARGET), JInt(6), "list", f) }

RECURSIVE TreesOf(_)
RECURSIVE ForestsOf(_)
TreesOf(n) ==
    IF n = 1 THEN LeafNodes
    ELSE UNION { Wrap(f) : f \in ForestsOf(n - 1) }

ForestsOf(n) ==
    IF n = 0 THEN {<<>>}
    ELSE UNION { { <<t>> \o f : t \in TreesOf(k), f \in ForestsOf(n - k) } : k \in 1..n }

TreeInputs == {None} \cup { Some(f) : f \in UNION { ForestsOf(n) : n \in 0..MaxNodes } }

(***************************************************************************)
(* Row transformer.                                                        *)
(*                                                                         *)
(* A raw item is [id, quantity, price, promotion, isPromotion, oldPrice]:  *)
(* promotion tells whether it["promotion"] is "missing", "null" or a       *)
(* "dict", and isPromotion and oldPrice are the JSON values in that dict   *)
(* (JMissing when there is none).  A float with two decimals is            *)
(* [whole, frac], the number whole + frac / 100 with 0 <= frac < 100.      *)
(***************************************************************************)
RawItem(i, q, p, pr, ip, op) ==
    [id |-> i, quantity |-> q, price |-> p, promotion |-> pr, isPromotion |-> ip, oldPrice |-> op]

\* round(value / 100.0, 2) for a number of minor units
Round2(n) == [whole |-> n \div 100, frac |-> n % 100]

\* mutant: "if not value" for "if value is None"
money_from_int_Falsy(value) == IF ~Truthy(value) THEN None ELSE Some(Round2(value.v))

\* money_from_int(value), for None, an int or a bool
money_from_int(value) ==
    IF value.t \in {"missing", "null"} THEN None ELSE Some(Round2(value.v))

\* promo = it.get("promotion") or {};  promo.get(field)
PromoGet(it, field) ==
    IF it.promotion = "dict"
    THEN (IF field = "isPromotion" THEN it.isPromotion ELSE it.oldPrice)
    ELSE JMissing

\* promo_price = money_from_int(price) if is_promo else None
PromoPrice(it) ==
    IF Truthy(PromoGet(it, "isPromotion")) THEN money_from_int(it.price) ELSE None

\* mutant: the old price is ignored
RegularPrice_IgnoresOld(it) == money_from_int(it.price)

\* regular_price = money_from_int(old_price)
\*     if is_promo and isinstance(old_price, int) else money_from_int(price)
RegularPrice(it) ==
    IF Truthy(PromoGet(it, "isPromotion")) /\ IsInstanceInt(PromoGet(it, "oldPrice"))
    THEN money_from_int(PromoGet(it, "oldPrice"))
    ELSE money_from_int(it.price)

\* to_row(it, city_name); name and brand are left out of the row
to_row(it, cname) ==
    [product_id |-> it.id,
     regular_price |-> RegularPrice(it),
     promo_price |-> PromoPrice(it),
     city |-> cname]

\* one call of to_row on its own
ToRow ==
    /\ pc = "to_row"
    /\ row' = Some(to_row(item, city_name))
    /\ pc' = "row_done"
    /\ UNCHANGED <<cityVars, catVars, fetchVars, file, err, item>>

PriceValues == {0, 500, 700} \cup { 99 + k : k \in 0..MaxPrice }

PriceInputs == {JMissing, JNull} \cup { JInt(p) : p \in PriceValues }

OldPriceInputs ==
    {JMissing, JNull, JBool(TRUE), JFloat(700), JStr(1)} \cup { JInt(p) : p \in PriceValues }

RowInputs ==
    { RawItem(1, JInt(1), p, "missing", JMissing, JMissing) : p \in PriceInputs }
    \cup { RawItem(1, JInt(1), p, "null", JMissing, JMissing) : p \in PriceInputs }
    \cup { RawItem(1, JInt(1), p, "dict", ip, op) :
             p \in PriceInputs,
             ip \in {JMissing, JNull, JBool(TRUE), JBool(FALSE), JInt(1)},
             op \in OldPriceInputs }

(***************************************************************************)
(* Paginated product fetcher.                                              *)
(***************************************************************************)
DEFAULT_LIMIT == 20

\* the page sizes of the model
Limits == {0, 2, DEFAULT_LIMIT}

\* the generator on its own is not followed past this offset
OffsetCap == DEFAULT_LIMIT * (MaxPages + 1)

\* server: the number of non-empty pages the upstream catalogue still has,
\* or Endless for an endpoint that never runs out of them
Endless == 0 - 1

\* isinstance(qty, int) and qty > 0
InStock(it) == IsInstanceInt(it.quantity) /\ it.quantity.v > 0

\* for it in items: ... yield it
YieldedOf(items) == SelectSeq(items, InStock)

\* mutant: the loop stops at a page shorter than three items
PageEnds_ShortPage(items) == Len(items) < 3

\* mutant: the loop never stops at an empty page
PageEnds_Never(items) == FALSE

\* if not items: break
PageEnds(items) == items = <<>>

\* data.get("items", []) or []
ItemsOf(raw) == IF raw = None THEN <<>> ELSE Val(raw)

\* data.get("token", "") or ""
TokenOf(raw) == IF raw = None THEN <<>> ELSE Val(raw)

\* "token": token or ""  in the payload, for a str
SentToken(tok) == tok

\* mutant: the offset counts pages
NextOffset_PageNumber(o, l) == o + 1

\* offset += limit
NextOffset(o, l) == o + l

\* mutant: the failure is swallowed and main goes on to write what it has
OnHttpError_Swallowed == "write"

\* r.raise_for_status() in goods_search_page raises and nothing catches it:
\* where main goes from there
OnHttpError == "failed"

Q(i, q) == RawItem(i, q, JInt(500), "missing", JMissing, JMissing)

\* the pages the search endpoint answers with: "items" absent, empty, or a
\* list of items whose quantities are 1, 2 / 3, 20 / 0, 5, -1 /
\* absent, null, 1.5 / "7", false, true
PageInputs ==
    { None,
      Some(<<>>),
      Some(<<Q(11, JInt(1)), Q(12, JInt(2))>>),
      Some(<<RawItem(21, JInt(3), JInt(500), "dict", JBool(TRUE), JInt(700)), Q(22, JInt(20))>>),
      Some(<<Q(31, JInt(0)), Q(32, JInt(5)), Q(33, JInt(0 - 1))>>),
      Some(<<Q(41, JMissing), Q(42, JNull), Q(43, JFloat(1))>>),
      Some(<<Q(51, JStr(7)), Q(52, JBool(FALSE)), Q(53, JBool(TRUE))>>) }

\* the continuation tokens it answers with: absent, "a" or "b"
TokenInputs == { None, Some(<<97>>), Some(<<98>>) }

\* One turn of the while loop of iter_coffee_products_in_stock: the call of
\* goods_search_page and what follows it, up to the next call or the end of
\* the generator, together with main's rows.append(to_row(it, city_name))
\* for the items yielded.  With log the requests, the responses and the
\* items are recorded.
LoopTurn(log) ==
    \E ok \in BOOLEAN, rawItems \in PageInputs, rawToken \in TokenInputs :
      LET items == ItemsOf(rawItems)
          out == YieldedOf(items)
      IN /\ (items # <<>>) => (server = Endless \/ server > 0)
         /\ reqs' = IF log THEN Append(reqs, [offset |-> offset, token |-> SentToken(search_token)])
                    ELSE reqs
         /\ IF ~ok
            THEN /\ err' = "http"
                 /\ pc' = OnHttpError
                 /\ UNCHANGED <<offset, search_token, server, resps, yielded, rows>>
            ELSE /\ search_token' = TokenOf(rawToken)
                 /\ resps' = IF log THEN Append(resps, [items |-> items, token |-> rawToken])
                             ELSE resps
                 /\ err' = err
                 /\ IF PageEnds(items)
                    THEN /\ pc' = "write"
                         /\ UNCHANGED <<offset, server, yielded, rows>>
                    ELSE /\ yielded' = IF log THEN yielded \o out ELSE yielded
                         /\ rows' = IF log
                                    THEN rows \o [i \in 1..Len(out) |-> to_row(out[i], city_name)]
                                    ELSE rows
                         /\ offset' = NextOffset(offset, limit)
                         /\ server' = IF server = Endless \/ items = <<>> THEN server
                                      ELSE server - 1
                         /\ pc' = "fetch"

\* the loop as main runs it, followed for MaxRequests requests
Fetch ==
    /\ pc = "fetch"
    /\ Len(reqs) < MaxRequests
    /\ LoopTurn(TRUE)
    /\ UNCHANGED <<cityVars, catVars, limit, file, rowVars>>

\* the generator on its own, its consumer dropping the items
FetchOnly ==
    /\ pc = "fetch"
    /\ offset <= OffsetCap
    /\ LoopTurn(FALSE)
    /\ UNCHANGED <<cityVars, catVars, limit, file, rowVars>>

(***************************************************************************)
(* main.                                                                   *)
(***************************************************************************)
\* if not args.token or not args.device_id: return 2
Start ==
    /\ pc = "start"
    /\ \E creds \in BOOLEAN : pc' = IF creds THEN "resolve_city" ELSE "exit2"
    /\ UNCHANGED <<cityVars, catVars, fetchVars, file, err, rowVars>>

\* write_csv(rows, args.out); print(...); return 0
WriteCsv ==
    /\ pc = "write"
    /\ file' = Some(rows)
    /\ pc' = "done"
    /\ UNCHANGED <<cityVars, catVars, fetchVars, err, rowVars>>

(***************************************************************************)
(* Inputs and specifications.                                              *)
(***************************************************************************)
\* str.upper() on the Latin and Cyrillic small letters, to write inputs with
UpperCh(c) ==
    IF c >= 97 /\ c <= 122 THEN c - 32
    ELSE IF c >= 1072 /\ c <= 1103 THEN c - 32
    ELSE c

Upper(s) == [i \in 1..Len(s) |-> UpperCh(s[i])]

Pad(n) == [i \in 1..n |-> 32]

Keys == { KNOWN_CITIES[i].k : i \in 1..Len(KNOWN_CITIES) }

\* the keys, each key followed by ", рф", "spb moscow", "питер msk",
\* "kazan", "ms" and ""
CityWords ==
    Keys
    \cup { k \o <<44, 32, 1088, 1092>> : k \in Keys }
    \cup { <<115, 112, 98, 32, 109, 111, 115, 99, 111, 119>>,
           <<1087, 1080, 1090, 1077, 1088, 32, 109, 115, 107>>,
           <<107, 97, 122, 97, 110>>,
           <<109, 115>>,
           <<>> }

CityInputs ==
    {None} \cup { Some(Pad(a) \o w \o Pad(b)) :
                    a \in 0..MaxPad, b \in 0..MaxPad,
                    w \in CityWords \cup { Upper(x) : x \in CityWords } }

\* None, "", and "", a real identifier and "f 1" between spaces
FiasInputs ==
    {None} \cup { Some(Pad(a) \o w \o Pad(b)) :
                    a \in 0..MaxPad, b \in 0..MaxPad,
                    w \in { <<>>, FIAS_SPB, <<102, 32, 49>> } }

\* main, from its first line
Init ==
    /\ pc = "start"
    /\ city \in {None, Some(<<32, 77, 115, 107>>)}
    /\ fias_id = None /\ fias = None /\ cityPosts = <<>>
    /\ city_id = <<>> /\ city_name = <<>> /\ err = ""
    /\ tree \in {None, Some(<<ListNode(<<ListNode(<<DictNode(Some(TARGET), JInt(1), "missing", <<>>)>>)>>)>>)}
    /\ category_id = None
    /\ limit \in Limits /\ offset = 0 /\ search_token = <<>> /\ server = Endless
    /\ reqs = <<>> /\ resps = <<>> /\ yielded = <<>> /\ rows = <<>>
    /\ file = None
    /\ item = Q(1, JInt(1)) /\ row = None

Next == Start \/ ResolveCity \/ GetCategory \/ Fetch \/ WriteCsv

Spec == Init /\ [][Next]_vars

\* resolve_city on every input
InitCity ==
    /\ pc = "resolve_city"
    /\ city \in CityInputs /\ fias_id \in FiasInputs
    /\ fias = None /\ cityPosts = <<>> /\ city_id = <<>> /\ city_name = <<>> /\ err = ""
    /\ tree = None /\ category_id = None
    /\ limit = DEFAULT_LIMIT /\ offset = 0 /\ search_token = <<>> /\ server = Endless
    /\ reqs = <<>> /\ resps = <<>> /\ yielded = <<>> /\ rows = <<>>
    /\ file = None
    /\ item = Q(1, JInt(1)) /\ row = None

SpecCity == InitCity /\ [][ResolveCity]_vars

\* get_coffee_category_id on every tree
InitCategory ==
    /\ pc = "get_category"
    /\ tree \in TreeInputs
    /\ city = None /\ fias_id = None /\ fias = None /\ cityPosts = <<>>
    /\ city_id = <<>> /\ city_name = <<>> /\ err = ""
    /\ category_id = None
    /\ limit = DEFAULT_LIMIT /\ offset = 0 /\ search_token = <<>> /\ server = Endless
    /\ reqs = <<>> /\ resps = <<>> /\ yielded = <<>> /\ rows = <<>>
    /\ file = None
    /\ item = Q(1, JInt(1)) /\ row = None

SpecCategory == InitCategory /\ [][GetCategory]_vars

\* to_row on every item
InitRow ==
    /\ pc = "to_row"
    /\ item \in RowInputs
    /\ row = None
    /\ city = None /\ fias_id = None /\ fias = None /\ cityPosts = <<>>
    /\ city_id = <<>> /\ city_name = <<1052, 83, 75>> /\ err = ""
    /\ tree = None /\ category_id = None
    /\ limit = DEFAULT_LIMIT /\ offset = 0 /\ search_token = <<>> /\ server = Endless
    /\ reqs = <<>> /\ resps = <<>> /\ yielded = <<>> /\ rows = <<>>
    /\ file = None

SpecRow == InitRow /\ [][ToRow]_vars

\* iter_coffee_products_in_stock from its first line, consumed by main
InitFetch ==
    /\ pc = "fetch"
    /\ limit \in Limits
    /\ offset = 0 /\ search_token = <<>> /\ server = Endless
    /\ reqs = <<>> /\ resps = <<>> /\ yielded = <<>> /\ rows = <<>>
    /\ city = None /\ fias_id = None /\ fias = None /\ cityPosts = <<>>
    /\ city_id = <<55, 56>> /\ city_name = <<1052, 83, 75>> /\ err = ""
    /\ tree = None /\ category_id = Some(1)
    /\ file = None
    /\ item = Q(1, JInt(1)) /\ row = None

SpecFetch == InitFetch /\ [][Fetch]_vars

\* the generator on its own, against a catalogue that runs out after at most
\* MaxPages pages or never does; the loop always takes its next turn
InitFair ==
    /\ pc = "fetch"
    /\ limit \in Limits
    /\ server \in {Endless} \cup 0..MaxPages
    /\ offset = 0 /\ search_token = <<>>
    /\ reqs = <<>> /\ resps = <<>> /\ yielded = <<>> /\ rows = <<>>
    /\ city = None /\ fias_id = None /\ fias = None /\ cityPosts = <<>>
    /\ city_id = <<55, 56>> /\ city_name = <<1052, 83, 75>> /\ err = ""
    /\ tree = None /\ category_id = Some(1)
    /\ file = None
    /\ item = Q(1, JInt(1)) /\ row = None

SpecFair == InitFair /\ [][FetchOnly]_vars /\ WF_vars(FetchOnly)

(***************************************************************************)
(* Properties.                                                             *)
(***************************************************************************)
RECURSIVE FlatPages(_)
FlatPages(rs) == IF rs = <<>> THEN <<>> ELSE Head(rs).items \o FlatPages(Tail(rs))

Among(x, s) == \E j \in 1..Len(s) : s[j] = x

PageA == <<Q(11, JInt(1)), Q(12, JInt(2))>>
PageB == <<RawItem(21, JInt(3), JInt(500), "dict", JBool(TRUE), JInt(700)), Q(22, JInt(20))>>

\* C1: the generator stops at the first page with zero items and only there:
\* an empty page is the last response, no request follows it, and the
\* generator is over; what was yielded is the received items in the order
\* received, some of them left out; and for the pages [A, B, empty] of two
\* in-stock items each, exactly the four items of A and B are yielded in
\* exactly three requests.
C1_StopsAtFirstEmptyPage ==
    /\ \A k \in 1..Len(resps) :
         resps[k].items = <<>> => k = Len(resps) /\ Len(reqs) = k /\ pc = "write"
    /\ pc = "write" => Len(resps) >= 1 /\ resps[Len(resps)].items = <<>>
    /\ LET flat == FlatPages(resps)
           Kept(x) == Among(x, yielded)
       IN yielded = SelectSeq(flat, Kept)
    /\ (Len(resps) = 3 /\ resps[1].items = PageA /\ resps[2].items = PageB /\ resps[3].items = <<>>)
         => yielded = PageA \o PageB /\ Len(reqs) = 3 /\ pc = "write"

C1_Witness ==
    /\ pc = "write" /\ Len(reqs) = 3
    /\ resps[1].items = PageA /\ resps[2].items = PageB /\ resps[3].items = <<>>
    /\ yielded = PageA \o PageB

\* C2: every item of every non-empty page received is yielded if and only if
\* its quantity is a JSON integer that is 1 or greater.
C2_YieldedIffPositiveInteger ==
    \A k \in 1..Len(resps) : \A i \in 1..Len(resps[k].items) :
        LET it == resps[k].items[i]
        IN Among(it, yielded) <=> (it.quantity.t = "int" /\ it.quantity.v >= 1)

\* C3: main reaches write_csv only with no error raised and the last search
\* response empty, the file holds the rows and exists only once main is
\* done, and a run that failed (or exited for lack of credentials) has no
\* output file, whatever rows it had collected.
C3_FileOnlyAfterWholeSequence ==
    /\ pc \in {"write", "done"} =>
         /\ err = ""
         /\ Len(resps) >= 1 /\ resps[Len(resps)].items = <<>>
         /\ Len(rows) = Len(yielded)
    /\ file # None => pc = "done" /\ Val(file) = rows
    /\ (pc \in {"failed", "exit2"} \/ err # "") => file = None

C3_Witness ==
    /\ pc = "failed" /\ err = "http"
    /\ Len(resps) = 2 /\ Len(reqs) = 3 /\ Len(rows) >= 3
    /\ file = None

Echoed(k) == IF resps[k].token = None THEN <<>> ELSE resps[k].token[1]

CursorFollows ==
    /\ Len(reqs) >= 1 => reqs[1].offset = 0 /\ reqs[1].token = <<>>
    /\ \A k \in 1..(Len(reqs) - 1) :
         /\ reqs[k + 1].offset = k * limit
         /\ reqs[k + 1].token = Echoed(k)

OffsetsStrictlyIncrease ==
    /\ \A k \in 1..(Len(reqs) - 1) : reqs[k + 1].offset > reqs[k].offset
    /\ \A j, k \in 1..Len(reqs) : j # k => reqs[j].offset # reqs[k].offset

\* C5 as claimed: request 1 carries offset 0 and the empty token, request k+1
\* carries offset k * limit and the token of response k, and the offsets
\* strictly increase, so that no two requests carry the same offset.
C5_Original == CursorFollows /\ OffsetsStrictlyIncrease

\* C5 as amended: the same, the offsets strictly increasing for a positive
\* page size; with page size 0 every request carries offset 0.
C5_CursorProgression ==
    /\ CursorFollows
    /\ limit > 0 => OffsetsStrictlyIncrease
    /\ limit = 0 => \A k \in 1..Len(reqs) : reqs[k].offset = 0

C5_Witness ==
    /\ Len(reqs) = 3 /\ limit = 2
    /\ reqs[2].token = <<97>> /\ reqs[3].token = <<>>
    /\ reqs[3].offset = 4

\* C4 as claimed: whatever the endpoint answers and whatever the page size,
\* the loop ends (the runs the model does not follow past OffsetCap aside).
C4_Original == <>(pc # "fetch" \/ offset > OffsetCap)

\* C4 as amended: against a catalogue that runs out of non-empty pages the
\* loop ends, by an empty page or by a failure.
C4_TerminatesWhenCatalogueEnds == (server # Endless) => <>(pc # "fetch")

C4_Witness == pc = "write" /\ server = 0 /\ offset = 2 * DEFAULT_LIMIT

Is(m, n) == m # None /\ m[1].whole * 100 + m[1].frac = n /\ m[1].frac \in 0..99

FlagSet(it) == it.promotion = "dict" /\ it.isPromotion = JBool(TRUE)

FlagNotSet(it) ==
    it.promotion \in {"missing", "null"} \/ it.isPromotion \in {JBool(FALSE), JMissing, JNull}

\* C6: for an item with an integer price, with the promotion flag set
\* promo_price is price / 100 and regular_price is oldPrice / 100 when
\* oldPrice is an integer, and with the flag not set or no promotion object
\* regular_price is price / 100 and promo_price is absent; price 500 with
\* old price 700 on promotion gives 5.00 and 7.00.
C6_PromotionPricing ==
    row # None /\ item.price.t = "int" =>
        LET r == row[1]
        IN /\ FlagSet(item) =>
                /\ Is(r.promo_price, item.price.v)
                /\ item.oldPrice.t = "int" => Is(r.regular_price, item.oldPrice.v)
           /\ FlagNotSet(item) =>
                /\ Is(r.regular_price, item.price.v)
                /\ r.promo_price = None
           /\ (FlagSet(item) /\ item.price.v = 500 /\ item.oldPrice = JInt(700)) =>
                /\ r.promo_price = <<[whole |-> 5, frac |-> 0]>>
                /\ r.regular_price = <<[whole |-> 7, frac |-> 0]>>
           /\ (FlagNotSet(item) /\ item.price.v = 500) =>
                /\ r.regular_price = <<[whole |-> 5, frac |-> 0]>>

C6_Witness ==
    /\ row # None /\ FlagSet(item)
    /\ item.price = JInt(500) /\ item.oldPrice = JInt(700)
    /\ row[1].promo_price = <<[whole |-> 5, frac |-> 0]>>
    /\ row[1].regular_price = <<[whole |-> 7, frac |-> 0]>>

Supplied(o) == o # None /\ o[1] # <<>>

\* C8 as claimed: with an identifier supplied, exactly that identifier,
\* character for character, is posted to the city-info endpoint and returned.
C8_Original ==
    (Supplied(fias_id) /\ pc # "resolve_city") =>
        /\ cityPosts = <<fias_id[1]>>
        /\ pc = "get_category" => fias = fias_id

\* C8 as amended: with an identifier supplied, the identifier posted and
\* returned is the supplied one without its leading and trailing spaces,
\* whatever the city name; if nothing is left of it, the configuration error
\* is raised and nothing is posted.
C8_StrippedIdentifier ==
    (Supplied(fias_id) /\ pc # "resolve_city") =>
        \E a, b \in 0..Len(fias_id[1]) :
            /\ a + b <= Len(fias_id[1])
            /\ LET s == SubSeq(fias_id[1], a + 1, Len(fias_id[1]) - b)
               IN /\ fias_id[1] = Pad(a) \o s \o Pad(b)
                  /\ s # <<>> => s[1] # 32 /\ s[Len(s)] # 32
                  /\ s # <<>> => cityPosts = <<s>> /\ fias = <<s>>
                  /\ s = <<>> => cityPosts = <<>> /\ err = "config" /\ pc = "failed"

C8_Witness ==
    /\ pc = "get_category"
    /\ fias_id = <<Pad(1) \o FIAS_SPB \o Pad(1)>>
    /\ city = <<<<109, 115, 107>>>>
    /\ fias = <<FIAS_SPB>>
    /\ cityPosts = <<FIAS_SPB>>

FirstKeyIn(key) ==
    CHOOSE i \in 1..Len(KNOWN_CITIES) :
        /\ Contains(key, KNOWN_CITIES[i].k)
        /\ \A j \in 1..(i - 1) : ~Contains(key, KNOWN_CITIES[j].k)

Resolved(v) == fias = <<v>> /\ cityPosts = <<v>> /\ err # "config"

ConfigError == err = "config" /\ pc = "failed" /\ cityPosts = <<>>

SpbMoscow == <<115, 112, 98, 32, 109, 111, 115, 99, 111, 119>>

\* C9: with no identifier supplied, a city name that is a table key between
\* spaces, in small or capital letters, resolves to that key's identifier;
\* otherwise a name whose trimmed, lowercased form contains a key resolves to
\* the identifier of the first such key of the table ("spb moscow" to
\* Moscow's); and any other name, or none, raises the configuration error
\* with nothing posted.
C9_CityLookup ==
    (~Supplied(fias_id) /\ pc # "resolve_city") =>
        /\ \A i \in 1..Len(KNOWN_CITIES) : \A a, b \in 0..MaxPad :
             (city = <<Pad(a) \o KNOWN_CITIES[i].k \o Pad(b)>>
                \/ city = <<Pad(a) \o Upper(KNOWN_CITIES[i].k) \o Pad(b)>>)
               => Resolved(KNOWN_CITIES[i].v)
        /\ IF ~Supplied(city) THEN ConfigError
           ELSE LET key == Lower(Strip(city[1]))
                IN IF \E i \in 1..Len(KNOWN_CITIES) : KNOWN_CITIES[i].k = key
                   THEN \E i \in 1..Len(KNOWN_CITIES) :
                          KNOWN_CITIES[i].k = key /\ Resolved(KNOWN_CITIES[i].v)
                   ELSE IF \E i \in 1..Len(KNOWN_CITIES) : Contains(key, KNOWN_CITIES[i].k)
                   THEN Resolved(KNOWN_CITIES[FirstKeyIn(key)].v)
                   ELSE ConfigError
        /\ (Supplied(city) /\ Strip(city[1]) \in {SpbMoscow, Upper(SpbMoscow)})
             => Resolved(FIAS_MOSCOW)

C9_Witness ==
    /\ fias_id = None /\ city = <<Pad(1) \o Upper(SpbMoscow)>>
    /\ pc = "get_category"
    /\ fias = <<FIAS_MOSCOW>> /\ cityPosts = <<FIAS_MOSCOW>>

RECURSIVE Preorder(_)
RECURSIVE PreorderEach(_)
\* the dict nodes of a tree, parents before children, left to right
Preorder(n) ==
    IF n.t = "dict" THEN <<n>> \o (IF n.ch = "list" THEN PreorderEach(n.kids) ELSE <<>>)
    ELSE IF n.t = "list" THEN PreorderEach(n.kids)
    ELSE <<>>

PreorderEach(s) == IF s = <<>> THEN <<>> ELSE Preorder(Head(s)) \o PreorderEach(Tail(s))

Named(n) == n.name = <<TARGET>>

\* C10: once the tree is fetched, get_coffee_category_id returns the id of
\* the first node named "Кофе" in depth-first pre-order if there is one,
\* raises the not-found error if there is none, and raises nothing else.
C10_FirstInPreorder ==
    (pc # "get_category" /\ err # "http") =>
        LET nodes == IF tree = None THEN <<>> ELSE PreorderEach(tree[1])
            hits == SelectSeq(nodes, Named)
        IN /\ err \in {"", "notfound"}
           /\ err = "notfound" <=> hits = <<>>
           /\ hits # <<>> => hits[1].id.t = "int" /\ category_id = <<hits[1].id.v>>

====
